---- MODULE Spec2Model ----
(***************************************************************************)
(* Model of the table-reconstruction functions of pdf2data/pdf.py:         *)
(* overlap, get_attr_lookup, find_attr_group_matching, find_table (with    *)
(* its two partial applications find_row_table / find_col_table) and       *)
(* merge_overlapping_rows.                                                 *)
(*                                                                         *)
(* Each function is run as a small state machine over the variables        *)
(*   pc      position of the call ("start", a loop label, "done")          *)
(*   args    the arguments of the call                                     *)
(*   locals  the local variables of the function body                      *)
(*   result  None while running, then the returned value or the exception  *)
(* and has its own specification (SpecOverlap, SpecLocate, SpecTable,      *)
(* SpecMerge) whose Init draws the arguments from bounded sets.            *)
(***************************************************************************)
EXTENDS Integers, Sequences, FiniteSets, TLC

VARIABLES pc, args, locals, result

vars == <<pc, args, locals, result>>

(* ------------------------------ bounds --------------------------------- *)

\* overlap() alone is run on coordinates 0..MaxOverlapCoord
MaxOverlapCoord == 3

\* coordinates of text fragments (both axes) are 0..MaxCoord
MaxCoord == 1

\* find_table is called with at most MaxLines body fragments
MaxLines == 2

\* merge_overlapping_rows is called with at most MaxRows rows
MaxRows == 2

\* merge_overlapping_rows applied to its own output: at most MaxRemergeRows
\* rows, with row coordinates 0..MaxRemergeCoord
MaxRemergeRows == 3

MaxRemergeCoord == 2

\* find_attr_group_matching: at most MaxRegexes patterns, MaxFrags fragments
MaxRegexes == 2

MaxFrags == 2

(* --------------------------- small universes --------------------------- *)

\* texts of the table headers, pairwise distinct; the k-th header supplied
\* by the caller carries HeaderTexts[k]
HeaderTexts == <<"A", "B">>

\* heading_bias values: the two the code knows and one it does not
Biases == {"centered", "min", "other"}

\* well-formed intervals over a coordinate range
Intervals(S) == {iv \in S \X S : iv[1] <= iv[2]}

Coords == 0..MaxCoord

Max2(a, b) == IF a >= b THEN a ELSE b

Min2(a, b) == IF a <= b THEN a ELSE b

Abs(x) == IF x < 0 THEN -x ELSE x

None == [kind |-> "none"]

Return(v) == [kind |-> "return", value |-> v]

\* msg is <<message text, the key the message names or "">>
Raise(exc, msg) == [kind |-> "raise", exc |-> exc, msg |-> msg]

NoLocals == [unused |-> TRUE]

(* ------------------------------ overlap -------------------------------- *)

\* mutant: the clamp at zero is lost
overlap_noclamp(amin, amax, bmin, bmax) == Min2(amax, bmax) - Max2(amin, bmin)

\* pdf.py overlap(), after its assertion
overlap(amin, amax, bmin, bmax) ==
    LET begin_overlap == Max2(amin, bmin)
        end_overlap == Min2(amax, bmax)
    IN  Max2(0, end_overlap - begin_overlap)

\* the whole call: the assertion on the second interval, then the value
overlap_call(amin, amax, bmin, bmax) ==
    IF ~(bmin <= bmax)
    THEN Raise("AssertionError", <<"", "">>)
    ELSE Return(overlap(amin, amax, bmin, bmax))

OverlapCoords == 0..MaxOverlapCoord

InitOverlap ==
    /\ pc = "start"
    /\ args \in [a_min : OverlapCoords, a_max : OverlapCoords,
                 b_min : OverlapCoords, b_max : OverlapCoords]
    /\ locals = NoLocals
    /\ result = None

OverlapCall ==
    /\ pc = "start"
    /\ pc' = "done"
    /\ result' = overlap_call(args.a_min, args.a_max, args.b_min, args.b_max)
    /\ UNCHANGED <<args, locals>>

NextOverlap == OverlapCall

SpecOverlap == InitOverlap /\ [][NextOverlap]_vars

(* ---------------------------- text fragments ---------------------------- *)

\* A TextLine as the table functions read it.  find_table and
\* merge_overlapping_rows name the attributes they read by role
\* (row_min_attr_name, ..., col_max_attr_name); for find_row_table the roles
\* are rmin = y0, rmax = y1, cmin = x0, cmax = x1 and for find_col_table
\* rmin = x0, rmax = x1, cmin = y0, cmax = y1.  id stands for the identity
\* of the object: two TextLines with equal fields are distinct objects.
TextLine(id, text, rmin, rmax, cmin, cmax) ==
    [id |-> id, text |-> text, rmin |-> rmin, rmax |-> rmax,
     cmin |-> cmin, cmax |-> cmax]

(* --------------------------- get_attr_lookup ---------------------------- *)

\* pdf.py get_attr_lookup(lines, row_min_attr_name): a dictionary from each
\* exact attribute value to the fragments having it, in input order
get_attr_lookup(lines) ==
    [v \in {lines[i].rmin : i \in DOMAIN lines} |->
        SelectSeq(lines, LAMBDA l : l.rmin = v)]

(* ------------------------------- sorting -------------------------------- *)

RECURSIVE SortedSetAscending(_, _)
\* mutant: ascending order whatever reverse says
SortedSetAscending(S, reverse) ==
    IF S = {} THEN <<>>
    ELSE LET first == CHOOSE x \in S : \A y \in S : x <= y
         IN  <<first>> \o SortedSetAscending(S \ {first}, reverse)

RECURSIVE SortedSet(_, _)
\* sorted(S, reverse=reverse) of a set of distinct numbers
SortedSet(S, reverse) ==
    IF S = {} THEN <<>>
    ELSE LET first == IF reverse
                      THEN CHOOSE x \in S : \A y \in S : y <= x
                      ELSE CHOOSE x \in S : \A y \in S : x <= y
         IN  <<first>> \o SortedSet(S \ {first}, reverse)

\* stable insertion of h into a sequence sorted by cmin
RECURSIVE InsertByColMin(_, _)
InsertByColMin(h, sorted) ==
    IF sorted = <<>> THEN <<h>>
    ELSE IF h.cmin < sorted[Len(sorted)].cmin
         THEN Append(InsertByColMin(h, SubSeq(sorted, 1, Len(sorted) - 1)),
                     sorted[Len(sorted)])
         ELSE Append(sorted, h)

RECURSIVE SortedByColMin(_)
\* sorted(headers, key=col_min): stable, ascending
SortedByColMin(headers) ==
    IF headers = <<>> THEN <<>>
    ELSE InsertByColMin(headers[Len(headers)],
                        SortedByColMin(SubSeq(headers, 1, Len(headers) - 1)))

(* ------------------- min() / max() over (value, header) ----------------- *)

\* Python compares the tuples (value, h) lexicographically.  Two tuples with
\* equal values and distinct TextLine objects fall through to h < h, and
\* TextLine defines no ordering: TypeError.  min() and max() keep a running
\* best and compare every later item with it.  A pair is <<value, h>>.
TypeErrorResult == [ok |-> FALSE, exc |-> "TypeError", msg |-> <<"'<' not supported between instances of TextLine", "">>]

EmptyErrorResult == [ok |-> FALSE, exc |-> "ValueError", msg |-> <<"arg is an empty sequence", "">>]

RECURSIVE FoldBest(_, _, _, _)
FoldBest(pairs, i, best, wantMin) ==
    IF i > Len(pairs) THEN [ok |-> TRUE, h |-> best[2]]
    ELSE LET item == pairs[i]
         IN  IF item[1] = best[1] /\ item[2].id # best[2].id
             THEN TypeErrorResult
             ELSE IF (wantMin /\ item[1] < best[1]) \/ (~wantMin /\ item[1] > best[1])
                  THEN FoldBest(pairs, i + 1, item, wantMin)
                  ELSE FoldBest(pairs, i + 1, best, wantMin)

PyMin(pairs) ==
    IF pairs = <<>> THEN EmptyErrorResult ELSE FoldBest(pairs, 2, pairs[1], TRUE)

PyMax(pairs) ==
    IF pairs = <<>> THEN EmptyErrorResult ELSE FoldBest(pairs, 2, pairs[1], FALSE)

(* ------------------------------ find_table ------------------------------ *)

\* the headers with nonzero overlap with fragment l, in header order
possible_headers(headers, l) ==
    SelectSeq(headers, LAMBDA h : overlap(h.cmin, h.cmax, l.cmin, l.cmax) # 0)


\* abs(0.5*(h.cmin + h.cmax) - (l.cmin + l.cmax)*0.5), doubled: halving a
\* float is exact, so the doubled distances compare as the code's do
CenterDistance2(h, l) == Abs((h.cmin + h.cmax) - (l.cmin + l.cmax))

\* ((distance of h's center from l's, h) for h in headers)
CenterPairs(headers, l) ==
    [i \in DOMAIN headers |-> <<CenterDistance2(headers[i], l), headers[i]>>]

\* ((h.cmin, h) for h in hs)
ColMinPairs(hs) == [i \in DOMAIN hs |-> <<hs[i].cmin, hs[i]>>]

\* the header chosen when no header overlaps, per heading_bias
NoOverlapHeader(headers, l, heading_bias) ==
    IF heading_bias = "centered"
    THEN PyMin(CenterPairs(headers, l))
    ELSE IF heading_bias = "min"
         THEN PyMax(ColMinPairs(SelectSeq(headers, LAMBDA h : h.cmin <= l.cmin)))
         ELSE [ok |-> FALSE, exc |-> "ValueError", msg |-> <<"unrecognized heading bias", "">>]

\* pdf.py find_table, the body of the loop over row_lines up to key = h.text:
\* the header of fragment l, or the exception raised on the way
ChooseHeader(headers, l, heading_bias) ==
    IF ~(l.cmin <= l.cmax)
    THEN [ok |-> FALSE, exc |-> "AssertionError", msg |-> <<"", "">>]
    ELSE LET ph == possible_headers(headers, l)
         IN  IF Len(ph) = 0 THEN NoOverlapHeader(headers, l, heading_bias)
             ELSE IF Len(ph) = 1 THEN [ok |-> TRUE, h |-> ph[1]]
             ELSE PyMin(ColMinPairs(ph))

\* row with row[key] = l
DictSet(row, key, l) ==
    [k \in (DOMAIN row) \cup {key} |-> IF k = key THEN l ELSE row[k]]

EmptyDict == [k \in {} |-> 0]

\* mutant: a second fragment under the same key overwrites the first
StoreOverwriting(row, key, l) == [ok |-> TRUE, row |-> DictSet(row, key, l)]

\* pdf.py find_table, "if key in row: raise ... else: row[key] = l"
Store(row, key, l) ==
    IF key \in DOMAIN row
    THEN [ok |-> FALSE, exc |-> "ValueError", msg |-> <<"duplicate assignment of key", key>>]
    ELSE [ok |-> TRUE, row |-> DictSet(row, key, l)]

\* arguments of find_table: up to Len(HeaderTexts) headers, up to MaxLines
\* body fragments; reverse_sort is TRUE for find_row_table and FALSE for
\* find_col_table
\* the lists of n headers / n body fragments.  find_table reads the row
\* minimum and the column interval of a body fragment and only the column
\* interval and the text of a header.
HeaderLists(n) ==
    {[k \in 1..n |-> TextLine(k, HeaderTexts[k], 0, 0, ivs[k][1], ivs[k][2])] :
        ivs \in [1..n -> Intervals(Coords)]}

LineLists(n) ==
    {[k \in 1..n |-> TextLine(100 + k, "x", fs[k][1], fs[k][1], fs[k][2][1], fs[k][2][2])] :
        fs \in [1..n -> Coords \X Intervals(Coords)]}

InitTable ==
    /\ pc = "start"
    /\ \E nh \in 0..Len(HeaderTexts), nl \in 0..MaxLines :
         \E headers \in HeaderLists(nh), lines \in LineLists(nl),
            reverse_sort \in BOOLEAN, heading_bias \in Biases :
             args = [headers |-> headers, lines |-> lines,
                     reverse_sort |-> reverse_sort, heading_bias |-> heading_bias]
    /\ locals = NoLocals
    /\ result = None

\* lines 339-342: sort the headers, group the lines, order the row keys
FindTableBegin ==
    /\ pc = "start"
    /\ pc' = "rows"
    /\ locals' = [headers |-> SortedByColMin(args.headers),
                  row_keys |-> SortedSet(DOMAIN get_attr_lookup(args.lines), args.reverse_sort),
                  i_key |-> 1, i_line |-> 1, rows |-> <<>>]
    /\ UNCHANGED <<args, result>>

\* the fragment the loops are at
CurrentRowLines == get_attr_lookup(args.lines)[locals.row_keys[locals.i_key]]

CurrentLine == CurrentRowLines[locals.i_line]

\* rows as they are once the current row exists: a new empty row is appended
\* when the loop enters a row cluster (lines 345-346)
RowsWithCurrent ==
    IF locals.i_line = 1 THEN Append(locals.rows, EmptyDict) ELSE locals.rows

\* lines 347-406: one iteration of the loop over row_lines
FindTableLine ==
    /\ pc = "rows"
    /\ locals.i_key <= Len(locals.row_keys)
    /\ LET l == CurrentLine
           rows == RowsWithCurrent
           row == rows[Len(rows)]
           chosen == ChooseHeader(locals.headers, l, args.heading_bias)
           stored == IF chosen.ok THEN Store(row, chosen.h.text, l) ELSE chosen
           last == locals.i_line = Len(CurrentRowLines)
       IN  IF stored.ok
           THEN /\ locals' = [locals EXCEPT
                                !.rows = [rows EXCEPT ![Len(rows)] = stored.row],
                                !.i_line = IF last THEN 1 ELSE @ + 1,
                                !.i_key = IF last THEN @ + 1 ELSE @]
                /\ UNCHANGED <<pc, result>>
           ELSE /\ locals' = [locals EXCEPT !.rows = rows]
                /\ pc' = "done"
                /\ result' = Raise(stored.exc, stored.msg)
    /\ UNCHANGED args

\* line 408: return rows
FindTableReturn ==
    /\ pc = "rows"
    /\ locals.i_key > Len(locals.row_keys)
    /\ pc' = "done"
    /\ result' = Return(locals.rows)
    /\ UNCHANGED <<args, locals>>

NextTable == FindTableBegin \/ FindTableLine \/ FindTableReturn

SpecTable == InitTable /\ [][NextTable]_vars

(* ----------------------- find_attr_group_matching ----------------------- *)

\* Texts are sequences of characters here, since the patterns are searched
\* inside them.  A pattern is a regular expression made of literal
\* characters: regex.search(text) finds it iff it occurs as a substring.
Search(regex, text) ==
    \E i \in 1..(Len(text) + 1) :
        /\ i + Len(regex) - 1 <= Len(text)
        /\ SubSeq(text, i, i + Len(regex) - 1) = regex

\* mutant: one fragment of the group has to contain every pattern
GroupMatchesInOneLine(regexes, row_lines) ==
    \E j \in DOMAIN row_lines :
        \A r \in DOMAIN regexes : Search(regexes[r], row_lines[j].text)

\* lines 285-289: all(any(regex.search(l.text) ... for l in row_lines)
\*                    for regex in regexes)
GroupMatches(regexes, row_lines) ==
    \A r \in DOMAIN regexes :
        \E j \in DOMAIN row_lines : Search(regexes[r], row_lines[j].text)

\* pdf.py find_attr_group_matching; attr_name names the rmin attribute
find_attr_group_matching(regexes, lines) ==
    LET attr_lookup == get_attr_lookup(lines)
        matching == {attr_value \in DOMAIN attr_lookup :
                        GroupMatches(regexes, attr_lookup[attr_value])}
    IN  IF Cardinality(matching) < 1
        THEN Raise("GroupNotFound", <<"", "">>)
        ELSE IF Cardinality(matching) > 1
             THEN Raise("RuntimeError", <<"more than one group found matching", "">>)
             ELSE Return(CHOOSE attr_value \in matching : TRUE)

LocateTexts == {<<>>, <<"a">>, <<"b">>, <<"a", "b">>, <<"b", "a">>}

LocatePatterns == {<<>>, <<"a">>, <<"b">>, <<"a", "b">>}

LocateLineLists(n) ==
    {[k \in 1..n |-> TextLine(100 + k, fs[k][2], fs[k][1], fs[k][1], 0, 0)] :
        fs \in [1..n -> Coords \X LocateTexts]}

InitLocate ==
    /\ pc = "start"
    /\ \E nr \in 0..MaxRegexes, nl \in 0..MaxFrags :
         \E regexes \in [1..nr -> LocatePatterns], lines \in LocateLineLists(nl) :
             args = [regexes |-> regexes, lines |-> lines]
    /\ locals = NoLocals
    /\ result = None

FindAttrGroupMatching ==
    /\ pc = "start"
    /\ pc' = "done"
    /\ result' = find_attr_group_matching(args.regexes, args.lines)
    /\ UNCHANGED <<args, locals>>

NextLocate == FindAttrGroupMatching

SpecLocate == InitLocate /\ [][NextLocate]_vars

(* ------------------------ merge_overlapping_rows ------------------------ *)

EmptyExtentError == Raise("ValueError", <<"arg is an empty sequence", "">>)

\* get_row_extent(row): (min of rmin, max of rmax) over row.values(); min()
\* of an empty row raises ValueError
get_row_extent(row) ==
    IF DOMAIN row = {} THEN [ok |-> FALSE]
    ELSE [ok |-> TRUE,
          min |-> CHOOSE v \in {row[k].rmin : k \in DOMAIN row} :
                      \A k \in DOMAIN row : v <= row[k].rmin,
          max |-> CHOOSE v \in {row[k].rmax : k \in DOMAIN row} :
                      \A k \in DOMAIN row : row[k].rmax <= v]

\* mutant: extents that touch count as overlapping
ExtentsOverlapOrTouch(e, f) == Min2(e.max, f.max) - Max2(e.min, f.min) >= 0

\* line 321: "if overlap(row_min, row_max, next_row_min, next_row_max)"
ExtentsOverlap(e, f) == overlap(e.min, e.max, f.min, f.max) # 0

\* mutant: on a key collision the earlier row's fragment is kept
DictUpdateKeepingOld(row, next_row) ==
    [k \in (DOMAIN row) \cup (DOMAIN next_row) |->
        IF k \in DOMAIN row THEN row[k] ELSE next_row[k]]

\* line 322: row.update(next_row)
DictUpdate(row, next_row) ==
    [k \in (DOMAIN row) \cup (DOMAIN next_row) |->
        IF k \in DOMAIN next_row THEN next_row[k] ELSE row[k]]

Keys == {HeaderTexts[i] : i \in DOMAIN HeaderTexts}

\* the rows a table has: non-empty dictionaries from header texts to
\* fragments (find_table appends a row only for a non-empty row cluster);
\* a shape gives the row extent of the fragment under each key
RowShapes == UNION {[D -> Intervals(Coords)] : D \in (SUBSET Keys) \ {{}}}

KeyIndex(k) == CHOOSE i \in DOMAIN HeaderTexts : HeaderTexts[i] = k

\* the r-th row of a list, of shape sh; each fragment has its own identity
RowAt(r, sh) ==
    [k \in DOMAIN sh |-> TextLine(10 * r + KeyIndex(k), "x", sh[k][1], sh[k][2], 0, 0)]

\* the lists of n rows
RowLists(n) == {[r \in 1..n |-> RowAt(r, shs[r])] : shs \in [1..n -> RowShapes]}

InitMerge ==
    /\ pc = "start"
    /\ \E n \in 0..MaxRows : \E rows \in RowLists(n) : args = [rows |-> rows]
    /\ locals = NoLocals
    /\ result = None

\* lines 306-307: "if not rows: return rows"
MergeEmpty ==
    /\ pc = "start"
    /\ args.rows = <<>>
    /\ pc' = "done"
    /\ result' = Return(args.rows)
    /\ UNCHANGED <<args, locals>>

\* lines 309-312 (i_row counts from 1 here, from 0 in the code)
MergeBegin ==
    /\ pc = "start"
    /\ args.rows # <<>>
    /\ pc' = "loop"
    /\ locals' = [new_rows |-> <<>>, row |-> args.rows[1], i_row |-> 2]
    /\ UNCHANGED <<args, result>>

\* lines 314-328: one iteration of the while loop
MergeStep ==
    /\ pc = "loop"
    /\ locals.i_row <= Len(args.rows)
    /\ LET next_row == args.rows[locals.i_row]
           e == get_row_extent(locals.row)
           f == get_row_extent(next_row)
       IN  IF ~e.ok \/ ~f.ok
           THEN /\ pc' = "done"
                /\ result' = EmptyExtentError
                /\ UNCHANGED locals
           ELSE /\ IF ExtentsOverlap(e, f)
                   THEN locals' = [locals EXCEPT
                                     !.row = DictUpdate(locals.row, next_row),
                                     !.i_row = @ + 1]
                   ELSE locals' = [locals EXCEPT
                                     !.new_rows = Append(@, locals.row),
                                     !.i_row = @ + 1,
                                     !.row = next_row]
                /\ UNCHANGED <<pc, result>>
    /\ UNCHANGED args

\* lines 330-332
MergeReturn ==
    /\ pc = "loop"
    /\ locals.i_row > Len(args.rows)
    /\ pc' = "done"
    /\ locals' = [locals EXCEPT !.new_rows = Append(@, locals.row)]
    /\ result' = Return(Append(locals.new_rows, locals.row))
    /\ UNCHANGED args

NextMerge == MergeEmpty \/ MergeBegin \/ MergeStep \/ MergeReturn

SpecMerge == InitMerge /\ [][NextMerge]_vars

(* ------------- merge_overlapping_rows on its own output ----------------- *)

\* The caller merges, then merges the returned list once more:
\*   merge_overlapping_rows(merge_overlapping_rows(rows, ...), ...)
\* args.previous is None during the first call and holds the result of the
\* first call during the second.
RemergeCoords == 0..MaxRemergeCoord

RemergeRowShapes ==
    UNION {[D -> Intervals(RemergeCoords)] : D \in (SUBSET Keys) \ {{}}}

RemergeRowLists(n) ==
    {[r \in 1..n |-> RowAt(r, shs[r])] : shs \in [1..n -> RemergeRowShapes]}

InitRemerge ==
    /\ pc = "start"
    /\ \E n \in 0..MaxRemergeRows : \E rows \in RemergeRowLists(n) :
            args = [rows |-> rows, previous |-> None]
    /\ locals = NoLocals
    /\ result = None

\* the second call, on the list the first call returned
MergeAgain ==
    /\ pc = "done"
    /\ args.previous = None
    /\ result.kind = "return"
    /\ pc' = "start"
    /\ args' = [rows |-> result.value, previous |-> result]
    /\ locals' = NoLocals
    /\ result' = None

NextRemerge == MergeEmpty \/ MergeBegin \/ MergeStep \/ MergeReturn \/ MergeAgain

SpecRemerge == InitRemerge /\ [][NextRemerge]_vars

(* ----------------------- claims on find_table --------------------------- *)

Started == pc # "start"

Raised == pc = "done" /\ result.kind = "raise"

Returned == pc = "done" /\ result.kind = "return"

\* the fragment whose iteration raised; a fragment that is not stored is
\* acceptable to the assignment claims only when the call stopped at it with
\* the duplicate-key error for the key it was to get
FailedLine == CurrentLine

DuplicateKeyError(key) == Raise("ValueError", <<"duplicate assignment of key", key>>)

UnrecognizedBiasError == Raise("ValueError", <<"unrecognized heading bias", "">>)

\* the fragments stored so far, with the key each is stored under
StoredEntries ==
    {<<r, k>> \in (DOMAIN locals.rows) \X {HeaderTexts[i] : i \in DOMAIN HeaderTexts} :
        k \in DOMAIN locals.rows[r]}

\* the headers as the caller passed them; id is the position in that list
Headers == {args.headers[i] : i \in DOMAIN args.headers}

PositiveOverlap(h, l) ==
    \E k \in Coords : /\ h.cmin <= k /\ k + 1 <= h.cmax
                      /\ l.cmin <= k /\ k + 1 <= l.cmax

Overlapping(l) == {h \in Headers : PositiveOverlap(h, l)}

\* h comes before g in the header list sorted (stably) by cmin
SortsBefore(h, g) == h.cmin < g.cmin \/ (h.cmin = g.cmin /\ h.id < g.id)

FirstInSortedOrder(H) == CHOOSE h \in H : \A g \in H \ {h} : SortsBefore(h, g)

OverlapsSomeHeader(l) == Overlapping(l) # {}

LeftmostOverlapping(l) == FirstInSortedOrder(Overlapping(l))

\* C2: a body fragment with strictly positive overlap with at least one
\* header is stored under the text of the overlapping header with the
\* smallest colMin, the first of them in colMin-sorted order, whatever the
\* heading bias.
C2_OverlappingGoesToLeftmost ==
    Started =>
        /\ \A e \in StoredEntries :
             LET l == locals.rows[e[1]][e[2]]
             IN  OverlapsSomeHeader(l) => e[2] = LeftmostOverlapping(l).text
        /\ (Raised /\ OverlapsSomeHeader(FailedLine)) =>
             result = DuplicateKeyError(LeftmostOverlapping(FailedLine).text)

Nearest(l) ==
    {h \in Headers : \A g \in Headers :
        Abs((h.cmin + h.cmax) - (l.cmin + l.cmax))
            <= Abs((g.cmin + g.cmax) - (l.cmin + l.cmax))}

CenteredCase(l) ==
    args.heading_bias = "centered" /\ Overlapping(l) = {} /\ Headers # {}

FirstNearest(l) == FirstInSortedOrder(Nearest(l))

\* C3: under heading bias "centered" a body fragment overlapping no header
\* is assigned to the header with the nearest column-center; with several
\* nearest headers the call still succeeds and the first of them in
\* colMin-sorted order is taken.
C3_CenteredGoesToFirstNearest ==
    Started =>
        /\ \A e \in StoredEntries :
             LET l == locals.rows[e[1]][e[2]]
             IN  CenteredCase(l) => e[2] = FirstNearest(l).text
        /\ (Raised /\ CenteredCase(FailedLine)) =>
             result = DuplicateKeyError(FirstNearest(FailedLine).text)

AtOrBefore(l) == {h \in Headers : h.cmin <= l.cmin}

MinCase(l) == args.heading_bias = "min" /\ Overlapping(l) = {}

\* C8: under heading bias "min" a body fragment overlapping no header is
\* assigned to a header with the largest colMin among the headers whose
\* colMin is at or before the fragment's colMin; without such a header the
\* call fails with an error.
C8_MinGoesToLastAtOrBefore ==
    Started =>
        /\ \A e \in StoredEntries :
             LET l == locals.rows[e[1]][e[2]]
             IN  MinCase(l) =>
                   \E h \in AtOrBefore(l) :
                       /\ h.text = e[2]
                       /\ \A g \in AtOrBefore(l) : g.cmin <= h.cmin
        /\ (Raised /\ MinCase(FailedLine) /\ AtOrBefore(FailedLine) # {}) =>
             \E h \in AtOrBefore(FailedLine) :
                 /\ result = DuplicateKeyError(h.text)
                 /\ \A g \in AtOrBefore(FailedLine) : g.cmin <= h.cmin

\* C4: a call whose heading bias is neither "centered" nor "min" fails with
\* the unrecognized-bias error whatever the headers and fragments are, and
\* no fragment is assigned to a row before it fails.
C4_UnknownBiasAlwaysRejected ==
    args.heading_bias \notin {"centered", "min"} =>
        /\ Started => StoredEntries = {}
        /\ pc = "done" => result = UnrecognizedBiasError

\* the header text the code resolves fragment l to, when it resolves it
Resolved(l) == ChooseHeader(locals.headers, l, args.heading_bias)

SameCluster(l, m) == l.rmin = m.rmin

Lines == {args.lines[i] : i \in DOMAIN args.lines}

\* two distinct fragments of one row cluster that resolve to the same text
ClashingPairs ==
    {p \in Lines \X Lines :
        /\ p[1].id # p[2].id /\ SameCluster(p[1], p[2])
        /\ Resolved(p[1]).ok /\ Resolved(p[2]).ok
        /\ Resolved(p[1]).h.text = Resolved(p[2]).h.text}

ClusterSize(v) == Cardinality({l \in Lines : l.rmin = v})

\* C5: when two distinct fragments of one row cluster resolve to the same
\* header text the call raises the duplicate-key error naming that key and
\* returns no table, the first fragment staying where it was; so every row
\* of a returned table has as many entries as its cluster has fragments.
C5_DuplicateKeyRaises ==
    pc = "done" =>
        /\ \A e \in StoredEntries :
             LET l == locals.rows[e[1]][e[2]]
             IN  Resolved(l).ok /\ Resolved(l).h.text = e[2]
        /\ Returned => ClashingPairs = {}
        /\ Returned =>
             \A r \in DOMAIN result.value :
                Cardinality(DOMAIN result.value[r]) = ClusterSize(locals.row_keys[r])
        /\ (Raised /\ Resolved(FailedLine).ok) =>
             LET key == Resolved(FailedLine).h.text
                 row == locals.rows[Len(locals.rows)]
             IN  /\ result = DuplicateKeyError(key)
                 /\ key \in DOMAIN row
                 /\ row[key].id # FailedLine.id
                 /\ <<row[key], FailedLine>> \in ClashingPairs
        /\ (pc = "done" /\ ClashingPairs # {} /\ \A l \in Lines : Resolved(l).ok) =>
             \E p \in ClashingPairs : result = DuplicateKeyError(Resolved(p[1]).h.text)

\* a call stopped by the second fragment of a row claiming header "A"
C5_Witness ==
    /\ Raised
    /\ result = DuplicateKeyError("A")
    /\ Len(args.headers) = 2
    /\ DOMAIN locals.rows[Len(locals.rows)] = {"A"}
    /\ locals.rows[Len(locals.rows)]["A"].id # FailedLine.id

RowMinValues == {l.rmin : l \in Lines}

\* the rmin shared by the fragments of a returned row
RowValue(row) == row[CHOOSE k \in DOMAIN row : TRUE].rmin

\* C7: a returned table has exactly one row per distinct rowMin value of the
\* body fragments, in strictly descending order of that value for
\* find_row_table and strictly ascending order for find_col_table, and every
\* body fragment is a value of exactly one row, the row of its own rowMin.
C7_RowsPartitionByRowMin ==
    Returned =>
        LET rows == result.value
        IN  /\ Len(rows) = Cardinality(RowMinValues)
            /\ \A r \in DOMAIN rows :
                 /\ DOMAIN rows[r] # {}
                 /\ \A k \in DOMAIN rows[r] :
                      rows[r][k] \in Lines /\ rows[r][k].rmin = RowValue(rows[r])
            /\ \A r, q \in DOMAIN rows :
                 r < q => IF args.reverse_sort
                          THEN RowValue(rows[r]) > RowValue(rows[q])
                          ELSE RowValue(rows[r]) < RowValue(rows[q])
            /\ \A l \in Lines :
                 /\ Cardinality({r \in DOMAIN rows :
                        \E k \in DOMAIN rows[r] : rows[r][k].id = l.id}) = 1
                 /\ \A r \in DOMAIN rows : \A k, j \in DOMAIN rows[r] :
                        (rows[r][k].id = l.id /\ rows[r][j].id = l.id) =>
                            (k = j /\ rows[r][k] = l)

\* find_row_table returning two rows
C7_Witness ==
    /\ Returned
    /\ args.reverse_sort
    /\ Len(result.value) = 2
    /\ RowValue(result.value[1]) > RowValue(result.value[2])

(* ---------------- claim C1 (find_attr_group_matching) ------------------- *)

\* pattern p occurs inside text t
Contains(t, p) ==
    \E n \in 0..Len(t) : \E m \in n..Len(t) :
        /\ m - n = Len(p)
        /\ \A i \in 1..Len(p) : t[n + i] = p[i]

Patterns == {args.regexes[i] : i \in DOMAIN args.regexes}

\* the attribute values whose group of fragments holds every pattern
MatchingGroups ==
    {v \in {l.rmin : l \in Lines} :
        \A p \in Patterns : \E l \in Lines : l.rmin = v /\ Contains(l.text, p)}

\* C1: find_attr_group_matching groups the fragments by exact attribute
\* value and counts the groups in which every pattern is found in the text
\* of at least one fragment: exactly one such group, it returns that
\* group's value; none, it raises GroupNotFound; two or more, it raises the
\* ambiguity error and returns none of the candidates.
C1_ExactlyOneGroupOrError ==
    pc = "done" =>
        /\ Cardinality(MatchingGroups) = 1 =>
             result.kind = "return" /\ result.value \in MatchingGroups
        /\ Cardinality(MatchingGroups) = 0 =>
             result.kind = "raise" /\ result.exc = "GroupNotFound"
        /\ Cardinality(MatchingGroups) >= 2 =>
             /\ result.kind = "raise" /\ result.exc = "RuntimeError"
             /\ result.msg[1] = "more than one group found matching"

\* the one matching group holds each of two patterns in a different fragment
C1_Witness ==
    /\ pc = "done"
    /\ result.kind = "return"
    /\ args.regexes = <<<<"a">>, <<"b">>>>
    /\ Len(args.lines) = 2
    /\ args.lines[1].text = <<"a">> /\ args.lines[2].text = <<"b">>
    /\ args.lines[1].rmin = result.value /\ args.lines[2].rmin = result.value

(* --------------- claims C6, C9 (merge_overlapping_rows) ----------------- *)

ExtentMin(row) == CHOOSE v \in {row[k].rmin : k \in DOMAIN row} :
                      \A k \in DOMAIN row : v <= row[k].rmin

ExtentMax(row) == CHOOSE v \in {row[k].rmax : k \in DOMAIN row} :
                      \A k \in DOMAIN row : v >= row[k].rmax

\* the extents of the two rows share a unit cell [c, c+1]
StrictlyOverlapping(row, other) ==
    \E c \in Coords :
        /\ ExtentMin(row) <= c /\ c + 1 <= ExtentMax(row)
        /\ ExtentMin(other) <= c /\ c + 1 <= ExtentMax(other)

\* union of the key sets, the later row winning on a collision
Folded(row, later) ==
    [k \in (DOMAIN row) \cup (DOMAIN later) |->
        IF k \in DOMAIN later THEN later[k] ELSE row[k]]

\* one iteration handles the next row as C6 says
C6_Step ==
    (pc = "loop" /\ locals.i_row <= Len(args.rows)) =>
        LET next_row == args.rows[locals.i_row]
        IN  /\ pc' = "loop"
            /\ locals'.i_row = locals.i_row + 1
            /\ IF StrictlyOverlapping(locals.row, next_row)
               THEN /\ locals'.row = Folded(locals.row, next_row)
                    /\ locals'.new_rows = locals.new_rows
               ELSE /\ locals'.row = next_row
                    /\ locals'.new_rows = Append(locals.new_rows, locals.row)

\* the walk starts with the first row and the last accumulator is output
C6_Ends ==
    /\ (pc = "loop" /\ locals.i_row = 2) =>
          locals.row = args.rows[1] /\ locals.new_rows = <<>>
    /\ (pc = "done" /\ args.rows # <<>>) =>
          /\ result.kind = "return"
          /\ result.value = locals.new_rows
          /\ locals.new_rows[Len(locals.new_rows)] = locals.row
    /\ (pc = "done" /\ Len(args.rows) = 2) =>
          IF StrictlyOverlapping(args.rows[1], args.rows[2])
          THEN result = Return(<<Folded(args.rows[1], args.rows[2])>>)
          ELSE result = Return(args.rows)

\* C6: merge_overlapping_rows walks the rows in order with one accumulator:
\* a next row whose extent strictly overlaps the accumulator's is folded in
\* (union of keys, the later row winning a collision), a next row that does
\* not closes the accumulator into the output and becomes the accumulator,
\* and the last accumulator is always output; two overlapping rows give one
\* row, two non-overlapping rows are returned as they are.
C6_MergeWalk == [][C6_Step]_vars /\ []C6_Ends

\* two rows merged with a key collision and a key only the first row has
C6_Witness ==
    /\ pc = "done"
    /\ Len(args.rows) = 2
    /\ DOMAIN args.rows[1] = {"A", "B"} /\ DOMAIN args.rows[2] = {"A"}
    /\ Len(result.value) = 1
    /\ result.value[1]["A"] = args.rows[2]["A"]
    /\ result.value[1]["B"] = args.rows[1]["B"]

NoAdjacentOverlap ==
    \A i \in 1..(Len(args.rows) - 1) :
        ~StrictlyOverlapping(args.rows[i], args.rows[i + 1])

\* C9: a row sequence in which no two adjacent rows strictly overlap is
\* returned as it is, same rows, same order, same contents; the empty
\* sequence is returned empty.
C9_FullyMergedUnchanged ==
    (pc = "done" /\ NoAdjacentOverlap) => result = Return(args.rows)

\* two rows whose extents touch at a point come back unchanged
C9_Witness ==
    /\ pc = "done"
    /\ Len(args.rows) = 2
    /\ ExtentMax(args.rows[1]) = ExtentMin(args.rows[2])
    /\ ExtentMin(args.rows[1]) < ExtentMax(args.rows[1])
    /\ result = Return(args.rows)

(* ------------- claim C11 (merge_overlapping_rows, twice) ---------------- *)

\* the extents of the two rows share more than a point
ExtentsShareInterior(row, other) ==
    Max2(ExtentMin(row), ExtentMin(other)) < Min2(ExtentMax(row), ExtentMax(other))

FullyMerged(rows) ==
    \A i \in 1..(Len(rows) - 1) : ~ExtentsShareInterior(rows[i], rows[i + 1])

FirstCallDone == pc = "done" /\ args.previous = None

SecondCallDone == pc = "done" /\ args.previous # None

\* C11: the output of merge_overlapping_rows on non-empty rows is fully
\* merged, no two adjacent output rows having strictly positive extent
\* overlap, and merging the output once more returns the same sequence.
C11_OutputFullyMerged ==
    /\ FirstCallDone => (result.kind = "return" /\ FullyMerged(result.value))
    /\ SecondCallDone => result = args.previous

(* ------------------------- claim C10 (overlap) ------------------------- *)

WellFormedArgs == args.a_min <= args.a_max /\ args.b_min <= args.b_max

\* number of unit cells [k, k+1] lying inside both intervals: the length of
\* the intersection, counted without min/max
IntersectionLength ==
    Cardinality({k \in OverlapCoords :
        /\ args.a_min <= k /\ k + 1 <= args.a_max
        /\ args.b_min <= k /\ k + 1 <= args.b_max})

Intersect == Max2(args.a_min, args.b_min) <= Min2(args.a_max, args.b_max)

\* C10: for well-formed intervals overlap returns a value that is never
\* negative, is the same with the two intervals swapped, is
\* min(a_max, b_max) - max(a_min, b_min) when the intervals intersect and 0
\* when they are disjoint or only touch; it is the length of the intersection.
C10_OverlapIsIntersectionLength ==
    (pc = "done" /\ WellFormedArgs) =>
        /\ result.kind = "return"
        /\ result.value >= 0
        /\ result = overlap_call(args.b_min, args.b_max, args.a_min, args.a_max)
        /\ result.value = IntersectionLength
        /\ Intersect =>
             result.value = Min2(args.a_max, args.b_max) - Max2(args.a_min, args.b_min)
        /\ (~Intersect \/ args.a_max = args.b_min \/ args.b_max = args.a_min) =>
             result.value = 0

\* a call on two intervals that properly straddle each other
C10_Witness ==
    /\ pc = "done"
    /\ args.a_min < args.b_min /\ args.b_min < args.a_max /\ args.a_max < args.b_max
    /\ result = Return(args.a_max - args.b_min)

====
